---- MODULE Spec2Model ----
(***************************************************************************)
(* Model of src/struct.py: the scaffold builder.  create_structure walks a *)
(* nested description (dict / list / None values) and issues one           *)
(* Path.mkdir(exist_ok=True) or Path.touch() per node, printing a line     *)
(* after each call that returned.  The filesystem is a map from existing   *)
(* paths to entries; every library call is split into the system calls it  *)
(* makes (os.mkdir then is_dir, os.utime then os.open), so that two        *)
(* instances can interleave between them.                                  *)
(***************************************************************************)
EXTENDS Naturals, Sequences, FiniteSets, TLC

VARIABLES
    structure, \* the description handed to create_structure (struct.py:5-144)
    fs,       \* the filesystem below the target root: path -> entry
    fs0,      \* the filesystem before any instance started (history)
    status,   \* per instance: "idle", "running", "done", "failed"
    pc,       \* per instance: "loop", "isdir" (inside mkdir), "open" (inside touch)
    stack,    \* per instance: the frames of create_structure, innermost first
    out,      \* per instance: the lines written to standard output
    calls,    \* per instance: the creation calls issued so far (history)
    err,      \* per instance: the exception caught or raised, and its path
    pre,      \* per instance: the filesystem when the instance started (history)
    removed   \* the paths the user removed between two runs (history)

vars == <<structure, fs, fs0, status, pc, stack, out, calls, err, pre, removed>>

(***************************************************************************)
(* Bounds.                                                                 *)
(***************************************************************************)
\* at most this many entries are chosen to pre-exist under the target root
\* (their ancestors pre-exist with them, as directories)
MaxPre == 3

Instances == {1, 2}

(***************************************************************************)
(* Descriptions: the value kinds create_structure distinguishes.           *)
(***************************************************************************)
\* content is None
File == [tag |-> "file", items |-> <<>>]

\* content is neither None, nor a dict, nor a list (no branch matches)
Other == [tag |-> "other", items |-> <<>>]

\* one (name, content) pair of structure.items()
Item(name, content) == [name |-> name, content |-> content]

\* content is a dict: its items in insertion order
Dict(items) == [tag |-> "dict", items |-> items]

\* content is a list of file names: every member is touched
List(names) == [tag |-> "list", items |-> [i \in 1..Len(names) |-> Item(names[i], File)]]

\* {"a": {"b": ["c"]}}
Scenario == Dict(<<Item("a", Dict(<<Item("b", List(<<"c">>))>>))>>)

\* {"a": ["b", "b"], "b": None}
DupList == Dict(<<Item("a", List(<<"b", "b">>)), Item("b", File)>>)

\* {"c": None, "a": {"a": {}, "b": None, "c": []}}
Mixed == Dict(<<Item("c", File),
                Item("a", Dict(<<Item("a", Dict(<<>>)), Item("b", File), Item("c", List(<<>>))>>))>>)

\* {"b": {"a": ["c"], "c": "text"}, "a": {}}
TwoDirs == Dict(<<Item("b", Dict(<<Item("a", List(<<"c">>)), Item("c", Other)>>)),
                  Item("a", Dict(<<>>))>>)

Descs == {Scenario, DupList, Mixed, TwoDirs}

(***************************************************************************)
(* Paths and the filesystem.                                               *)
(***************************************************************************)
current_dir == <<>>

\* base_path / name
Join(base, name) == Append(base, name)

Parent(path) == SubSeq(path, 1, Len(path) - 1)

IsPrefix(p, q) == Len(p) <= Len(q) /\ SubSeq(q, 1, Len(p)) = p

Prefixes(path) == {SubSeq(path, 1, n) : n \in 0..Len(path)}

DirEntry(m) == [kind |-> "dir", data |-> "", mtime |-> m]

FileEntry(d, m) == [kind |-> "file", data |-> d, mtime |-> m]

Exists(f, path) == path \in DOMAIN f

IsDir(f, path) == Exists(f, path) /\ f[path].kind = "dir"

IsFile(f, path) == Exists(f, path) /\ f[path].kind = "file"

\* a new entry in its parent directory, whose modification time moves
AddEntry(f, path, e) ==
    [q \in DOMAIN f \cup {path} |->
        IF q = path THEN e
        ELSE IF q = Parent(path) THEN [f[q] EXCEPT !.mtime = "new"]
        ELSE f[q]]

\* the error of resolving the parent of a path, "none" when it is a directory
ParentError(f, path) ==
    IF IsDir(f, Parent(path)) THEN "none"
    ELSE IF \E q \in Prefixes(Parent(path)) : IsFile(f, q) THEN "NotADirectoryError"
    ELSE "FileNotFoundError"

Ok(f) == [err |-> "none", fs |-> f]

Fail(e, f) == [err |-> e, fs |-> f]

(***************************************************************************)
(* The system calls behind Path.touch() and Path.mkdir(exist_ok=True).     *)
(***************************************************************************)
\* a touch that rewrites the file: open(path, "w")
OsUtimeTruncating(f, path) ==
    IF Exists(f, path)
    THEN Ok([f EXCEPT ![path] = FileEntry("", "new")])
    ELSE Fail("FileNotFoundError", f)

\* os.utime(path, None): moves the modification time of whatever is there
OsUtime(f, path) ==
    IF Exists(f, path)
    THEN Ok([f EXCEPT ![path].mtime = "new"])
    ELSE IF ParentError(f, path) # "none" THEN Fail(ParentError(f, path), f)
    ELSE Fail("FileNotFoundError", f)

\* touch(exist_ok=False): os.open with O_EXCL
OsOpenExclusive(f, path) ==
    IF ParentError(f, path) # "none" THEN Fail(ParentError(f, path), f)
    ELSE IF Exists(f, path) THEN Fail("FileExistsError", f)
    ELSE Ok(AddEntry(f, path, FileEntry("", "new")))

\* os.open(path, O_CREAT | O_WRONLY) then os.close: no O_EXCL, no O_TRUNC
OsOpen(f, path) ==
    IF ParentError(f, path) # "none" THEN Fail(ParentError(f, path), f)
    ELSE IF IsDir(f, path) THEN Fail("IsADirectoryError", f)
    ELSE IF Exists(f, path) THEN Ok(f)
    ELSE Ok(AddEntry(f, path, FileEntry("", "new")))

\* a mkdir that first clears what the directory held: rmtree, then mkdir
OsMkdirClean(f, path) ==
    IF ParentError(f, path) # "none" THEN Fail(ParentError(f, path), f)
    ELSE IF IsFile(f, path) THEN Fail("FileExistsError", f)
    ELSE Ok(AddEntry([q \in {r \in DOMAIN f : ~IsPrefix(path, r)} |-> f[q]], path, DirEntry("new")))

\* os.mkdir(path)
OsMkdir(f, path) ==
    IF Exists(f, path) THEN Fail("FileExistsError", f)
    ELSE IF ParentError(f, path) # "none" THEN Fail(ParentError(f, path), f)
    ELSE Ok(AddEntry(f, path, DirEntry("new")))

\* mkdir(exist_ok=False)
ExistOkNever(f, path) == FALSE

\* mkdir(exist_ok=True) after os.mkdir failed: "if not exist_ok or not self.is_dir(): raise"
ExistOk(f, path) == IsDir(f, path)

\* path.touch() run as one call
Touch(f, path) ==
    LET r == OsUtime(f, path) IN
    IF r.err = "none" THEN r ELSE OsOpen(f, path)

\* path.mkdir(exist_ok=True) run as one call
Mkdir(f, path) ==
    LET r == OsMkdir(f, path) IN
    IF r.err = "none" \/ r.err = "FileNotFoundError" THEN r
    ELSE IF ExistOk(f, path) THEN Ok(f)
    ELSE r

RECURSIVE create_structure(_, _, _)
\* create_structure(base, items) run alone and without interruption from f:
\* the filesystem it leaves, and the exception that ended it ("none": it returned)
create_structure(f, base, items) ==
    IF items = <<>> THEN Ok(f)
    ELSE LET it == Head(items)
             path == Join(base, it.name)
             r == IF it.content.tag = "file" THEN Touch(f, path)
                  ELSE IF it.content.tag \in {"dict", "list"}
                  THEN LET m == Mkdir(f, path) IN
                       IF m.err = "none" THEN create_structure(m.fs, path, it.content.items) ELSE m
                  ELSE Ok(f)
         IN IF r.err = "none" THEN create_structure(r.fs, base, Tail(items)) ELSE r

(***************************************************************************)
(* One instance of the script: the frames of create_structure.             *)
(***************************************************************************)
NoError == [type |-> "none", path |-> current_dir]

Line(text, path) == [text |-> text, path |-> path]

\* the frame of create_structure(base, structure), or of its loop over a list
Frame(kind, base, todo) == [kind |-> kind, base |-> base, todo |-> todo]

Top(p) == Head(stack[p])

\* the (name, content) pair the loop is at
Cur(p) == Head(Top(p).todo)

\* path = Path(name): the base path forgotten
CurPathFlat(p) == <<Cur(p).name>>

\* path = base_path / name
CurPath(p) == Join(Top(p).base, Cur(p).name)

HasItem(p) == status[p] = "running" /\ stack[p] # <<>> /\ Top(p).todo # <<>>

\* the frames once the loop has moved past the current item
Popped(p) == <<[Top(p) EXCEPT !.todo = Tail(@)]>> \o Tail(stack[p])

\* the call returned, and nothing is printed
AdvanceNoPrint(p, lines) ==
    /\ stack' = [stack EXCEPT ![p] = Popped(p)]
    /\ pc' = [pc EXCEPT ![p] = "loop"]
    /\ err' = [err EXCEPT ![p] = NoError]
    /\ UNCHANGED <<status, out>>

\* the call returned: print, and go on with the next item of the loop
Advance(p, lines) ==
    /\ stack' = [stack EXCEPT ![p] = Popped(p)]
    /\ out' = [out EXCEPT ![p] = @ \o lines]
    /\ pc' = [pc EXCEPT ![p] = "loop"]
    /\ err' = [err EXCEPT ![p] = NoError]
    /\ UNCHANGED status

\* the recursive call handed path / name instead of path
DescendWrongBase(p, lines) ==
    /\ stack' = [stack EXCEPT ![p] =
                    <<Frame(Cur(p).content.tag, Join(CurPath(p), Cur(p).name), Cur(p).content.items)>>
                        \o Popped(p)]
    /\ out' = [out EXCEPT ![p] = @ \o lines]
    /\ pc' = [pc EXCEPT ![p] = "loop"]
    /\ err' = [err EXCEPT ![p] = NoError]
    /\ UNCHANGED status

\* the directory's content is queued behind the remaining siblings
DescendBreadthFirst(p, lines) ==
    /\ stack' = [stack EXCEPT ![p] =
                    Popped(p) \o <<Frame(Cur(p).content.tag, CurPath(p), Cur(p).content.items)>>]
    /\ out' = [out EXCEPT ![p] = @ \o lines]
    /\ pc' = [pc EXCEPT ![p] = "loop"]
    /\ err' = [err EXCEPT ![p] = NoError]
    /\ UNCHANGED status

\* mkdir returned: print, and walk the directory's content
Descend(p, lines) ==
    /\ stack' = [stack EXCEPT ![p] =
                    <<Frame(Cur(p).content.tag, CurPath(p), Cur(p).content.items)>> \o Popped(p)]
    /\ out' = [out EXCEPT ![p] = @ \o lines]
    /\ pc' = [pc EXCEPT ![p] = "loop"]
    /\ err' = [err EXCEPT ![p] = NoError]
    /\ UNCHANGED status

\* the exception is caught and the walk goes on with the next item
RaiseSwallowed(p, e) ==
    /\ stack' = [stack EXCEPT ![p] = Popped(p)]
    /\ pc' = [pc EXCEPT ![p] = "loop"]
    /\ err' = [err EXCEPT ![p] = NoError]
    /\ UNCHANGED <<status, out>>

\* an exception leaves create_structure: nothing catches it, the script ends
Raise(p, e) ==
    /\ status' = [status EXCEPT ![p] = "failed"]
    /\ err' = [err EXCEPT ![p] = [type |-> e, path |-> CurPath(p)]]
    /\ stack' = [stack EXCEPT ![p] = <<>>]
    /\ pc' = [pc EXCEPT ![p] = "loop"]
    /\ UNCHANGED out

\* the library caught an OSError and goes on inside the same call
Caught(p, e, label) ==
    /\ pc' = [pc EXCEPT ![p] = label]
    /\ err' = [err EXCEPT ![p] = [type |-> e, path |-> CurPath(p)]]
    /\ UNCHANGED <<status, stack, out>>

Issue(p, op) == calls' = [calls EXCEPT ![p] = Append(@, [op |-> op, path |-> CurPath(p)])]

\* create_structure(current_dir, structure)
Begin(p) ==
    /\ status' = [status EXCEPT ![p] = "running"]
    /\ stack' = [stack EXCEPT ![p] = <<Frame("dict", current_dir, structure.items)>>]
    /\ pre' = [pre EXCEPT ![p] = fs]
    /\ UNCHANGED <<structure, fs, fs0, pc, out, calls, err, removed>>

\* runs of the script one after the other
StartSeq(p) ==
    /\ status[p] = "idle"
    /\ \A q \in Instances : q < p => status[q] \in {"done", "failed"}
    /\ Begin(p)

\* instances started at any time
StartConc(p) ==
    /\ status[p] = "idle"
    /\ Begin(p)

\* path.touch(), first half: try os.utime, swallow its OSError
TouchUtime(p) ==
    /\ HasItem(p) /\ pc[p] = "loop"
    /\ Cur(p).content.tag = "file"
    /\ Issue(p, "touch")
    /\ LET r == OsUtime(fs, CurPath(p)) IN
        IF r.err = "none"
        THEN fs' = r.fs /\ Advance(p, <<Line("Created file", CurPath(p))>>)
        ELSE fs' = fs /\ Caught(p, r.err, "open")
    /\ UNCHANGED <<structure, fs0, pre, removed>>

\* path.touch(), second half: os.open with O_CREAT
TouchOpen(p) ==
    /\ HasItem(p) /\ pc[p] = "open"
    /\ LET r == OsOpen(fs, CurPath(p)) IN
        IF r.err = "none"
        THEN fs' = r.fs /\ Advance(p, <<Line("Created file", CurPath(p))>>)
        ELSE fs' = fs /\ Raise(p, r.err)
    /\ UNCHANGED <<structure, fs0, calls, pre, removed>>

\* path.mkdir(exist_ok=True), first half: os.mkdir
MkdirCall(p) ==
    /\ HasItem(p) /\ pc[p] = "loop"
    /\ Cur(p).content.tag \in {"dict", "list"}
    /\ Issue(p, "mkdir")
    /\ LET r == OsMkdir(fs, CurPath(p)) IN
        IF r.err = "none"
        THEN fs' = r.fs /\ Descend(p, <<Line("Created directory", CurPath(p))>>)
        ELSE IF r.err = "FileNotFoundError"
        THEN fs' = fs /\ Raise(p, r.err)
        ELSE fs' = fs /\ Caught(p, r.err, "isdir")
    /\ UNCHANGED <<structure, fs0, pre, removed>>

\* path.mkdir(exist_ok=True), second half: re-raise unless the path is a directory
MkdirIsDir(p) ==
    /\ HasItem(p) /\ pc[p] = "isdir"
    /\ IF ExistOk(fs, CurPath(p))
       THEN Descend(p, <<Line("Created directory", CurPath(p))>>)
       ELSE Raise(p, err[p].type)
    /\ UNCHANGED <<structure, fs, fs0, calls, pre, removed>>

\* content matches no branch of the if/elif chain: nothing is done for it
SkipOther(p) ==
    /\ HasItem(p) /\ pc[p] = "loop"
    /\ Cur(p).content.tag = "other"
    /\ Advance(p, <<>>)
    /\ UNCHANGED <<structure, fs, fs0, calls, pre, removed>>

\* a loop is exhausted: the recursive call (or the loop over a list) ends
Return(p) ==
    /\ status[p] = "running" /\ Len(stack[p]) > 1
    /\ Top(p).todo = <<>>
    /\ stack' = [stack EXCEPT ![p] = Tail(@)]
    /\ UNCHANGED <<structure, fs, fs0, status, pc, out, calls, err, pre, removed>>

\* the outermost call returns: print("\nDirectory structure created successfully!")
Finish(p) ==
    /\ status[p] = "running" /\ Len(stack[p]) = 1
    /\ Top(p).todo = <<>>
    /\ stack' = [stack EXCEPT ![p] = <<>>]
    /\ out' = [out EXCEPT ![p] = @ \o <<Line("", current_dir), Line("Directory structure created successfully!", current_dir)>>]
    /\ status' = [status EXCEPT ![p] = "done"]
    /\ UNCHANGED <<structure, fs, fs0, pc, calls, err, pre, removed>>

\* between two runs the user removes the file the failed run stumbled on
FixCause ==
    /\ status[1] = "failed" /\ status[2] = "idle"
    /\ IsFile(fs, err[1].path)
    /\ fs' = [q \in DOMAIN fs \ {err[1].path} |->
                IF q = Parent(err[1].path) THEN [fs[q] EXCEPT !.mtime = "new"] ELSE fs[q]]
    /\ removed' = removed \cup {err[1].path}
    /\ UNCHANGED <<structure, fs0, status, pc, stack, out, calls, err, pre>>

(***************************************************************************)
(* Initial states.                                                         *)
(***************************************************************************)
RECURSIVE NamedIn(_, _)
\* every path the items name under base, with the tag of its content
NamedIn(base, items) ==
    UNION {
        {[path |-> Join(base, items[i].name), tag |-> items[i].content.tag]}
            \cup NamedIn(Join(base, items[i].name), items[i].content.items)
        : i \in 1..Len(items)}

Named(d) == NamedIn(current_dir, d.items)

\* the paths that may pre-exist: every path some description names
PrePaths == UNION {{n.path : n \in Named(d)} : d \in Descs}

PreEntries == [path : PrePaths, kind : {"dir", "file"}]

RECURSIVE Picks(_)
\* the sets of at most k pre-existing entries
Picks(k) ==
    IF k = 0 THEN {{}}
    ELSE LET S == Picks(k - 1) IN S \cup {s \cup {e} : s \in S, e \in PreEntries}

\* no entry lies below a file, no path holds two entries
Consistent(s) ==
    \A e1, e2 \in s :
        /\ (e1.path = e2.path => e1 = e2)
        /\ (e1.kind = "file" /\ IsPrefix(e1.path, e2.path) => e1 = e2)

\* the chosen entries and their ancestors; files hold content
Populate(s) ==
    [q \in UNION {Prefixes(e.path) : e \in s} \cup {current_dir} |->
        IF [path |-> q, kind |-> "file"] \in s
        THEN FileEntry("data", "old")
        ELSE DirEntry("old")]

EmptyRoot == Populate({})

InitialFS == {Populate(s) : s \in {t \in Picks(MaxPre) : Consistent(t)}}

InitProcs ==
    /\ fs0 = fs
    /\ status = [p \in Instances |-> "idle"]
    /\ pc = [p \in Instances |-> "loop"]
    /\ stack = [p \in Instances |-> <<>>]
    /\ out = [p \in Instances |-> <<>>]
    /\ calls = [p \in Instances |-> <<>>]
    /\ err = [p \in Instances |-> NoError]
    /\ pre = [p \in Instances |-> fs]
    /\ removed = {}

Init ==
    /\ structure \in Descs
    /\ fs \in InitialFS
    /\ InitProcs

Step(p) ==
    \/ TouchUtime(p)
    \/ TouchOpen(p)
    \/ MkdirCall(p)
    \/ MkdirIsDir(p)
    \/ SkipOther(p)
    \/ Return(p)
    \/ Finish(p)

Next ==
    \/ \E p \in Instances : StartSeq(p) \/ Step(p)
    \/ FixCause

\* one run, and a second run once the first has ended
Spec == Init /\ [][Next]_vars

InitConc ==
    /\ structure \in Descs
    /\ fs = EmptyRoot
    /\ InitProcs

NextConc == \E p \in Instances : StartConc(p) \/ Step(p)

\* two instances at the same time on an empty root
SpecConc == InitConc /\ [][NextConc]_vars

\* every started instance keeps being scheduled by the operating system
FairConc == SpecConc /\ \A p \in Instances : WF_vars(StartConc(p) \/ Step(p))

(***************************************************************************)
(* What the properties speak of.                                           *)
(***************************************************************************)
\* a filesystem without modification times: paths, entry types, contents
Tree(f) == [q \in DOMAIN f |-> [kind |-> f[q].kind, data |-> f[q].data]]

Without(f, paths) == [q \in DOMAIN f \ paths |-> f[q]]

\* the paths the description declares as directories, and as files
DeclaredDirs == {n.path : n \in {m \in Named(structure) : m.tag \in {"dict", "list"}}}

DeclaredFiles == {n.path : n \in {m \in Named(structure) : m.tag = "file"}}

Declared == DeclaredDirs \cup DeclaredFiles

RECURSIVE Count(_, _)
\* how many names with a content of these tags the items hold, list members
\* counted as often as they are listed
Count(items, tags) ==
    IF items = <<>> THEN 0
    ELSE (IF Head(items).content.tag \in tags THEN 1 ELSE 0)
         + Count(Head(items).content.items, tags)
         + Count(Tail(items), tags)

RECURSIVE PreOrderOf(_, _)
\* the depth-first pre-order of the items under base, children in declared order
PreOrderOf(base, items) ==
    IF items = <<>> THEN <<>>
    ELSE LET it == Head(items)
             path == Join(base, it.name)
             here == IF it.content.tag = "file" THEN <<[op |-> "touch", path |-> path]>>
                     ELSE IF it.content.tag \in {"dict", "list"}
                     THEN <<[op |-> "mkdir", path |-> path]>>
                     ELSE <<>>
         IN here \o PreOrderOf(path, it.content.items) \o PreOrderOf(base, Tail(items))

PreOrder == PreOrderOf(current_dir, structure.items)

IsSeqPrefix(s, t) == Len(s) <= Len(t) /\ SubSeq(t, 1, Len(s)) = s

CreationLines(o) == {i \in 1..Len(o) : o[i].text \in {"Created directory", "Created file"}}

CompletionLines(o) == {i \in 1..Len(o) : o[i].text = "Directory structure created successfully!"}

(***************************************************************************)
(* C1.  Completeness: whenever a run returns without raising, every name   *)
(* the description declares exists with the matching type, a directory for *)
(* a dict or list, a regular file for None or a list member, whatever the  *)
(* target root held before.                                                *)
(***************************************************************************)
C1_Completeness ==
    \A p \in Instances :
        status[p] = "done" =>
            /\ \A q \in DeclaredDirs : IsDir(fs, q)
            /\ \A q \in DeclaredFiles : IsFile(fs, q)

(***************************************************************************)
(* C2.  Idempotence: from an empty target root the first run ends without  *)
(* error, and a second run raises no error and leaves paths, entry types   *)
(* and file contents exactly as the first run left them, at every step.    *)
(***************************************************************************)
C2_Idempotence ==
    (fs0 = EmptyRoot /\ status[2] # "idle") =>
        /\ status[1] = "done"
        /\ status[2] # "failed"
        /\ Tree(fs) = Tree(pre[2])
        /\ Tree(fs) = Tree(create_structure(EmptyRoot, current_dir, structure.items).fs)

C2_Witness ==
    /\ fs0 = EmptyRoot
    /\ status[2] = "done"
    /\ \E q \in DeclaredFiles : IsFile(fs, q)
    /\ \E q \in DeclaredDirs : Len(q) = 2 /\ IsDir(fs, q)

(***************************************************************************)
(* C3.  Non-destructiveness: a path declared as a file that held a file    *)
(* with content before the run holds the same content in every state,      *)
(* during and after the runs, ended or aborted.                            *)
(***************************************************************************)
C3_NonDestructive ==
    \A q \in DeclaredFiles :
        (IsFile(fs0, q) /\ fs0[q].data # "") =>
            (IsFile(fs, q) /\ fs[q].data = fs0[q].data)

C3_Witness ==
    \E q \in DeclaredFiles :
        /\ IsFile(fs0, q) /\ fs0[q].data # ""
        /\ \E i \in 1..Len(calls[1]) : calls[1][i] = [op |-> "touch", path |-> q]
        /\ status[1] = "done"
        /\ fs[q].mtime = "new"

(***************************************************************************)
(* C4.  Pre-order guarantee: whenever an instance run alone is about to    *)
(* issue a system call that creates a declared path, the directory that    *)
(* is to hold it exists, and no run ends on a missing or non-directory     *)
(* parent.                                                                 *)
(***************************************************************************)
C4_PreOrder ==
    \A p \in Instances :
        /\ HasItem(p) => IsDir(fs, Top(p).base)
        /\ status[p] = "failed" =>
              err[p].type \notin {"FileNotFoundError", "NotADirectoryError"}

C4_Witness ==
    /\ HasItem(1) /\ pc[1] = "open"
    /\ Len(Top(1).base) = 2
    /\ ~Exists(fs0, Parent(Top(1).base))

\* C5, in a state: a mkdir that met a regular file is the last call of its run
C5_Halted ==
    \A p \in Instances :
        /\ \A i \in 1..Len(calls[p]) :
              (calls[p][i].op = "mkdir" /\ IsFile(fs, calls[p][i].path)) =>
                  /\ i = Len(calls[p])
                  /\ CompletionLines(out[p]) = {}
                  /\ \/ status[p] = "running" /\ pc[p] = "isdir"
                     \/ status[p] = "failed" /\ err[p].path = calls[p][i].path
        /\ status[p] = "failed" =>
              /\ CompletionLines(out[p]) = {}
              /\ Cardinality(CreationLines(out[p])) + 1 = Len(calls[p])
              /\ \A i \in 1..Len(out[p]) : Exists(fs, out[p][i].path)

\* C5, in a step: a failed run issues no call and prints no line any more
C5_Stays ==
    \A p \in Instances :
        status[p] = "failed" =>
            /\ status'[p] = "failed"
            /\ calls'[p] = calls[p]
            /\ out'[p] = out[p]
            /\ err'[p] = err[p]

(***************************************************************************)
(* C5.  Abort on first error: once a mkdir of the walk has met a regular   *)
(* file, it is the last creation call of that run, no progress line is     *)
(* printed for it or for a later node, no completion line is printed, the  *)
(* run ends failed at that path and stays as it is, and every path it      *)
(* printed a line for is still on disk.                                    *)
(***************************************************************************)
C5_AbortOnFirstError == [](C5_Halted) /\ [][C5_Stays]_vars

C5_Witness ==
    /\ status[1] = "failed"
    /\ out[1] # <<>>
    /\ Len(calls[1]) < Len(PreOrder)
    /\ status[2] = "failed"

(***************************************************************************)
(* C6.  Progress output: a run that ends without error has printed one     *)
(* "Created directory" line per dict- or list-valued name and one          *)
(* "Created file" line per None-valued name and per list member, then a    *)
(* single completion line, which is the last line (an empty line comes     *)
(* before it, from the "\n" of the message); for {"a": {"b": ["c"]}} that  *)
(* is three creation lines and one completion line.                        *)
(***************************************************************************)
C6_ProgressOutput ==
    \A p \in Instances :
        status[p] = "done" =>
            LET o == out[p]
                n == Len(o)
                dirs == {i \in 1..n : o[i].text = "Created directory"}
                files == {i \in 1..n : o[i].text = "Created file"}
            IN /\ Cardinality(dirs) = Count(structure.items, {"dict", "list"})
               /\ Cardinality(files) = Count(structure.items, {"file"})
               /\ CompletionLines(o) = {n}
               /\ \A i \in dirs \cup files : i < n
               /\ n = Cardinality(dirs) + Cardinality(files) + 2
               /\ o[n - 1].text = ""
               /\ (structure = Scenario => Cardinality(dirs \cup files) = 3)

C6_Witness ==
    /\ structure = Scenario
    /\ fs0 = EmptyRoot
    /\ status[1] = "done"
    /\ Len(out[1]) = 5

\* the run that followed an aborted run and the removal of the file it
\* stumbled on has ended
Resumed == status[1] = "failed" /\ removed # {} /\ status[2] \in {"done", "failed"}

\* a single uninterrupted run on the original root without the removed file
Uninterrupted == create_structure(Without(fs0, removed), current_dir, structure.items)

(***************************************************************************)
(* C7 as stated.  Safe resume: after a run aborted and the cause of the    *)
(* error was removed, a second run completes without error and ends with   *)
(* the tree of a single uninterrupted run on the original root.            *)
(***************************************************************************)
C7_ResumeCompletes ==
    Resumed => (status[2] = "done" /\ Tree(fs) = Tree(Uninterrupted.fs))

(***************************************************************************)
(* C7 as amended.  The second run repeats the calls of the first, gets     *)
(* past the first failure and leaves the tree an uninterrupted run on the  *)
(* original root without the removed file leaves; it completes without     *)
(* error exactly when no other path declared as a directory held a file    *)
(* before the first run, and otherwise aborts at such a path.              *)
(***************************************************************************)
C7_ResumeAmended ==
    Resumed =>
        /\ Tree(fs) = Tree(Uninterrupted.fs)
        /\ IsSeqPrefix(calls[1], calls[2])
        /\ (status[2] = "done") = (Uninterrupted.err = "none")
        /\ (status[2] = "done") = (\A q \in DeclaredDirs \ removed : ~IsFile(fs0, q))
        /\ status[2] = "failed" =>
              /\ Len(calls[2]) > Len(calls[1])
              /\ err[2].path \in DeclaredDirs \ removed
              /\ IsFile(fs0, err[2].path)

C7_Witness ==
    /\ Resumed
    /\ status[2] = "done"
    /\ Len(calls[1]) > 1
    /\ \E q \in DOMAIN fs : Len(q) = 2 /\ ~Exists(pre[2], q)

C8_NoError == \A p \in Instances : status[p] # "failed"

C8_AllDone == \A p \in Instances : status[p] = "done"

C8_SingleRunTree == C8_AllDone => Tree(fs) = Tree(create_structure(EmptyRoot, current_dir, structure.items).fs)

(***************************************************************************)
(* C8.  Concurrent invocations: two instances started at any time on the   *)
(* same empty root with the same description never raise, both reach       *)
(* completion, and the tree they leave is the tree of a single run.        *)
(***************************************************************************)
C8_Concurrent == [](C8_NoError /\ C8_SingleRunTree) /\ <>(C8_AllDone)

\* both instances are inside touch() for the same absent file
C8_Witness ==
    /\ HasItem(1) /\ HasItem(2)
    /\ pc[1] = "open" /\ pc[2] = "open"
    /\ CurPath(1) = CurPath(2)
    /\ ~Exists(fs, CurPath(1))

\* C9, in a state: what the description does not declare is as it was
C9_Untouched ==
    \A q \in DOMAIN fs0 :
        (q \notin Declared /\ q # current_dir) => (Exists(fs, q) /\ fs[q] = fs0[q])

\* C9, in a step of a run (the user's removal between runs is no such step)
C9_StepFrame ==
    (removed' = removed) =>
        /\ \A q \in DOMAIN fs : Exists(fs', q) /\ fs'[q].kind = fs[q].kind /\ fs'[q].data = fs[q].data
        /\ \A q \in DOMAIN fs' : Exists(fs, q) \/ q \in Declared

(***************************************************************************)
(* C9.  Frame of the walk: no step of a run removes an entry, changes the  *)
(* type of an entry, or creates a path the description does not declare,   *)
(* and every entry below the root that the description does not declare    *)
(* is in every state what it was before the runs.                          *)
(***************************************************************************)
C9_Frame == [](C9_Untouched) /\ [][C9_StepFrame]_vars

C9_Witness ==
    /\ status[1] = "done"
    /\ \E q \in DOMAIN fs0 : q \notin Declared /\ Parent(q) \in DeclaredDirs
    /\ \E q \in DOMAIN fs : ~Exists(fs0, q)

RECURSIVE SiblingsIn(_, _)
\* the items of each mapping and list, as (path, position) pairs
SiblingsIn(base, items) ==
    {{[path |-> Join(base, items[i].name), pos |-> i] : i \in 1..Len(items)}}
        \cup UNION {SiblingsIn(Join(base, items[i].name), items[i].content.items) : i \in 1..Len(items)}

(***************************************************************************)
(* C10.  Traversal order: the creation calls of a run are issued in the    *)
(* depth-first pre-order of the description, children in declared order:   *)
(* of two sibling names every call for the first and below it comes before *)
(* any call for the second, a directory comes before what it holds, and    *)
(* every run issues the same sequence; the progress lines follow it.       *)
(***************************************************************************)
C10_TraversalOrder ==
    \A p \in Instances :
        LET c == calls[p] IN
        /\ IsSeqPrefix(c, PreOrder)
        /\ status[p] = "done" => c = PreOrder
        /\ \A i, j \in 1..Len(c) :
              /\ (IsPrefix(c[i].path, c[j].path) /\ c[i].path # c[j].path) => i < j
              /\ \A group \in SiblingsIn(current_dir, structure.items) : \A x, y \in group :
                    (x.pos < y.pos /\ x.path # y.path
                        /\ IsPrefix(x.path, c[i].path) /\ IsPrefix(y.path, c[j].path)) => i < j
        /\ LET lines == SubSeq(out[p], 1, Cardinality(CreationLines(out[p]))) IN
           /\ Len(lines) <= Len(c)
           /\ \A i \in 1..Len(lines) :
                 /\ lines[i].path = c[i].path
                 /\ lines[i].text = (IF c[i].op = "mkdir" THEN "Created directory" ELSE "Created file")

C10_Witness ==
    /\ structure = Mixed
    /\ status[1] = "done" /\ status[2] = "done"
    /\ Len(calls[2]) = 5
====
